---- MODULE Spec2Model ----
(***************************************************************************)
(* Model of the retail data-cleaning repository.                           *)
(*                                                                         *)
(*   src/src/preprocessing.py  the column-pruning script: five filters     *)
(*                             applied top to bottom to df_clean           *)
(*   src/src/utils.py          the analysis helpers                        *)
(*                                                                         *)
(* A table (DataFrame) is a record [nrows, cols]: the length of its index  *)
(* and the sequence of its columns.  A column is a record                  *)
(*   [name, dtype, vals, isna]                                             *)
(* with dtype "num" (a numeric dtype) or "obj" (object/string dtype), vals *)
(* the cells and isna the missing-value mask (vals[i] is 0 where isna[i]). *)
(* The cells of an "obj" column are the codes of its string labels.        *)
(*                                                                         *)
(* Arithmetic is exact: a proportion k/n is compared with a threshold p/q  *)
(* as q*k against p*n, a correlation r = sxy/sqrt(sxx*syy) with p/q as     *)
(* q^2*sxy^2 against p^2*sxx*syy.                                          *)
(***************************************************************************)
EXTENDS Integers, Sequences, FiniteSets, TLC

VARIABLES
    df,                \* the table read from the CSV / handed to a helper
    df_clean,          \* preprocessing.py: the working copy
    pc,                \* position in the script / in the helper call
    constant_cols,     \* preprocessing.py:28
    quasi_const_cols,  \* preprocessing.py:41
    cols_to_remove,    \* preprocessing.py:61
    cols_trop_nan,     \* preprocessing.py:73
    corr_matrix,       \* preprocessing.py:83
    high_corr_cols,    \* preprocessing.py:91
    fn,                \* utils.py: the helper that was called
    args,              \* utils.py: its arguments other than df
    ret,               \* utils.py: what the call returned or raised
    effects            \* utils.py: prints, quantile computations, renderings

vars == <<df, df_clean, pc, constant_cols, quasi_const_cols, cols_to_remove,
          cols_trop_nan, corr_matrix, high_corr_cols, fn, args, ret, effects>>

pipelineVars == <<df_clean, constant_cols, quasi_const_cols, cols_to_remove,
                  cols_trop_nan, corr_matrix, high_corr_cols>>

utilVars == <<fn, args, ret, effects>>

(***************************************************************************)
(* Bounds                                                                  *)
(***************************************************************************)
MaxCols == 3

(***************************************************************************)
(* Sequences                                                               *)
(***************************************************************************)
Range(s) == {s[i] : i \in 1..Len(s)}

Rep(v, n) == [i \in 1..n |-> v]

RECURSIVE SumOver(_, _)
SumOver(S, f) ==
    IF S = {} THEN 0
    ELSE LET i == CHOOSE x \in S : TRUE IN f[i] + SumOver(S \ {i}, f)

Abs(x) == IF x < 0 THEN -x ELSE x

(***************************************************************************)
(* DataFrame primitives (pandas), as the two files use them                *)
(***************************************************************************)
ColNames(cs) == [i \in 1..Len(cs) |-> cs[i].name]

\* DataFrame.columns
Columns(t) == ColNames(t.cols)

NonNa(col) == {i \in 1..Len(col.vals) : ~col.isna[i]}

\* Series.nunique(): the number of distinct non-missing values
nunique(col) == Cardinality({col.vals[i] : i \in NonNa(col)})

\* Series.value_counts(): occurrences of v among the non-missing cells
CountOf(col, v) == Cardinality({i \in NonNa(col) : col.vals[i] = v})

\* Series.value_counts().max(), 0 for a column with no non-missing cell
MaxCount(col) ==
    LET counts == {CountOf(col, col.vals[i]) : i \in NonNa(col)}
    IN  IF counts = {} THEN 0 ELSE CHOOSE c \in counts : \A d \in counts : d <= c

\* Series.isna().sum()
NbNaN(col) == Cardinality({i \in 1..Len(col.vals) : col.isna[i]})

\* pandas.api.types.is_numeric_dtype / select_dtypes(include=number)
is_numeric_dtype(col) == col.dtype = "num"

select_dtypes_number(t) == [t EXCEPT !.cols = SelectSeq(t.cols, is_numeric_dtype)]

\* variant: every named column but the last one is dropped
DropAllButLast(t, names) ==
    LET gone == {names[i] : i \in 1..(Len(names) - 1)}
        Keep(col) == col.name \notin gone
    IN  [t EXCEPT !.cols = SelectSeq(t.cols, Keep)]

\* variant: drop(names) along axis 0, which removes one row per name given
DropAxis0(t, names) ==
    LET n == IF Len(names) < t.nrows THEN t.nrows - Len(names) ELSE 0
    IN  [nrows |-> n,
         cols |-> [i \in 1..Len(t.cols) |->
                     [t.cols[i] EXCEPT !.vals = SubSeq(@, 1, n), !.isna = SubSeq(@, 1, n)]]]

\* DataFrame.drop(columns=names): the columns not named; index, order and
\* cells are kept
drop(t, names) ==
    LET Keep(col) == col.name \notin Range(names)
    IN  [t EXCEPT !.cols = SelectSeq(t.cols, Keep)]

(***************************************************************************)
(* Pearson correlation over the rows where both columns are present        *)
(* (DataFrame.corr, pairwise deletion).  An entry keeps the three sums     *)
(*   sxy = n*Sum(xy) - Sum(x)*Sum(y), sxx, syy                             *)
(* so that r = sxy / sqrt(sxx*syy); nan when sxx*syy = 0.                  *)
(***************************************************************************)
corr(x, y) ==
    LET both == NonNa(x) \cap NonNa(y)
        n    == Cardinality(both)
        sx   == SumOver(both, x.vals)
        sy   == SumOver(both, y.vals)
        sxy  == n * SumOver(both, [i \in both |-> x.vals[i] * y.vals[i]]) - sx * sy
        sxx  == n * SumOver(both, [i \in both |-> x.vals[i] * x.vals[i]]) - sx * sx
        syy  == n * SumOver(both, [i \in both |-> y.vals[i] * y.vals[i]]) - sy * sy
    IN  [nan |-> (sxx = 0 \/ syy = 0), sxy |-> sxy, sxx |-> sxx, syy |-> syy]

\* DataFrame.corr() over the columns of t
CorrMatrix(t) ==
    [columns |-> Columns(t),
     m |-> [p \in (1..Len(t.cols)) \X (1..Len(t.cols)) |->
               corr(t.cols[p[1]], t.cols[p[2]])]]

\* DataFrame.abs()
MatrixAbs(cm) == [cm EXCEPT !.m = [p \in DOMAIN cm.m |-> [cm.m[p] EXCEPT !.sxy = Abs(@)]]]

\* df.select_dtypes(include=np.number).corr().abs()
CorrMatrixAbs(t) == MatrixAbs(CorrMatrix(select_dtypes_number(t)))

\* entry > p/q and entry >= p/q for a threshold p/q >= 0; a comparison with
\* NaN is False
CorrGt(e, th) ==
    /\ ~e.nan
    /\ e.sxy >= 0
    /\ th[2] * th[2] * e.sxy * e.sxy > th[1] * th[1] * e.sxx * e.syy

CorrGe(e, th) ==
    /\ ~e.nan
    /\ e.sxy >= 0
    /\ th[2] * th[2] * e.sxy * e.sxy >= th[1] * th[1] * e.sxx * e.syy

(***************************************************************************)
(* preprocessing.py: thresholds and the deny list                          *)
(***************************************************************************)
quasi_threshold == <<95, 100>>       \* 0.95

threshold == <<4, 10>>               \* 0.4

corr_threshold == <<9, 10>>          \* 0.9

DenyList == <<"CustomerID", "LastLoginIP", "RegistrationDate", "IP_privee",
              "Country_encoded", "UniqueCountries", "ZeroPriceCount">>

Target == "Churn"

(***************************************************************************)
(* preprocessing.py: the removal list each filter computes                 *)
(***************************************************************************)
ConstantCols(t) ==
    LET Flag(col) == nunique(col) <= 1
    IN  ColNames(SelectSeq(t.cols, Flag))

\* variant: the share is taken among all the rows
QuasiConstColsAllRows(t) ==
    LET Flag(col) ==
            quasi_threshold[2] * MaxCount(col) > quasi_threshold[1] * Len(col.vals)
    IN  ColNames(SelectSeq(t.cols, Flag))

\* value_counts(normalize=True).max() > 0.95: the share is taken among the
\* non-missing cells; the max of an empty distribution is NaN, and NaN > 0.95
\* is False
QuasiConstCols(t) ==
    LET Flag(col) ==
            /\ NonNa(col) # {}
            /\ quasi_threshold[2] * MaxCount(col)
                   > quasi_threshold[1] * Cardinality(NonNa(col))
    IN  ColNames(SelectSeq(t.cols, Flag))

ColsToRemove(t) ==
    LET Present(c) == c \in Range(Columns(t))
    IN  SelectSeq(DenyList, Present)

\* columns[isna().mean() > threshold]
ColsTropNan(t) ==
    LET Flag(col) == threshold[2] * NbNaN(col) > threshold[1] * Len(col.vals)
    IN  ColNames(SelectSeq(t.cols, Flag))

\* upper_triangle[col] > 0.9 for some row: some earlier numeric column i < j
UpperAny(cm, j) == \E i \in 1..(j - 1) : CorrGt(cm.m[<<i, j>>], corr_threshold)

\* variant: np.tril, the lower triangle, which flags the earlier column
HighCorrColsLower(cm) ==
    LET idx == [j \in 1..Len(cm.columns) |-> j]
        Flag(i) == \E j \in (i + 1)..Len(cm.columns) :
                       CorrGt(cm.m[<<i, j>>], corr_threshold)
        hit == SelectSeq(idx, Flag)
    IN  [k \in 1..Len(hit) |-> cm.columns[hit[k]]]

\* variant: only the column just before is looked at
HighCorrColsAdjacent(cm) ==
    LET idx == [j \in 1..Len(cm.columns) |-> j]
        Flag(j) == j > 1 /\ CorrGt(cm.m[<<j - 1, j>>], corr_threshold)
        hit == SelectSeq(idx, Flag)
    IN  [k \in 1..Len(hit) |-> cm.columns[hit[k]]]

HighCorrCols(cm) ==
    LET idx == [j \in 1..Len(cm.columns) |-> j]
        Flag(j) == UpperAny(cm, j)
        hit == SelectSeq(idx, Flag)
    IN  [k \in 1..Len(hit) |-> cm.columns[hit[k]]]

\* variant: the target is not exempted
ProtectNothing(names) == names

\* if "Churn" in high_corr_cols: high_corr_cols.remove("Churn")
ProtectTarget(names) ==
    LET NotTarget(c) == c # Target
    IN  SelectSeq(names, NotTarget)

(***************************************************************************)
(* Input tables.  A table has N rows and up to MaxCols columns, each a     *)
(* different series of Pool(N).  A column is named after the target, after *)
(* a deny-listed identifier, or by its position.                           *)
(***************************************************************************)
Num(v) == [dtype |-> "num", vals |-> v, isna |-> [i \in 1..Len(v) |-> FALSE]]

NumNa(v, na) == [dtype |-> "num", vals |-> v, isna |-> [i \in 1..Len(v) |-> i \in na]]

Obj(v) == [dtype |-> "obj", vals |-> v, isna |-> [i \in 1..Len(v) |-> FALSE]]

ObjNa(v, na) == [dtype |-> "obj", vals |-> v, isna |-> [i \in 1..Len(v) |-> i \in na]]

\* ka cells holding 1, then kb cells holding 2, then kn missing cells
Block(ka, kb, kn) ==
    NumNa(Rep(1, ka) \o Rep(2, kb) \o Rep(0, kn), (ka + kb + 1)..(ka + kb + kn))

RowCounts == {0, 4, 5, 20, 25}

Pool(N) ==
    CASE N = 0 -> {Obj(<<>>), Num(<<>>)}
      [] N = 4 -> {Num(<<0, 1, 2, 3>>), Num(<<1, 2, 3, 4>>), Num(<<0, 0, 1, 2>>),
                   Num(<<0, 1, 2, 2>>), Num(<<3, 2, 1, 0>>), Num(<<1, 0, 0, 1>>),
                   Obj(<<1, 2, 1, 3>>)}
      [] N = 5 -> {Num(<<0, 1, 2, 3, 4>>), Num(<<0, 1, 2, 4, 3>>),
                   NumNa(<<0, 1, 0, 0, 4>>, {3, 4}), NumNa(<<0, 0, 0, 1, 2>>, {1, 2, 3}),
                   NumNa(<<0, 0, 0, 0, 0>>, 1..5), ObjNa(<<1, 1, 1, 1, 0>>, {5})}
      [] N = 20 -> {Block(19, 1, 0), Block(20, 0, 0), Block(18, 2, 0), Block(19, 0, 1)}
      [] N = 25 -> {Block(24, 1, 0), Block(20, 1, 4), Block(19, 1, 5), Block(23, 2, 0)}

GenericNames == <<"Age", "Recency", "Frequency", "MonetaryTotal", "Tenure", "Visits">>

Kinds(N) == IF N \in {4, 5} THEN {"generic", "Churn", "CustomerID"} ELSE {"generic"}

NameOf(i, kind) == IF kind = "generic" THEN GenericNames[i] ELSE kind

AtMostOne(g, kind) == Cardinality({i \in DOMAIN g : g[i] = kind}) <= 1

Injective(f) == \A i, j \in DOMAIN f : i # j => f[i] # f[j]

TablesOf(N, pool, kinds) ==
    UNION {
        {[nrows |-> N,
          cols |-> [i \in 1..k |->
                      [name |-> NameOf(i, fg[2][i]), dtype |-> fg[1][i].dtype,
                       vals |-> fg[1][i].vals, isna |-> fg[1][i].isna]]] :
            fg \in {fg \in [1..k -> pool] \X [1..k -> kinds] :
                            /\ Injective(fg[1])
                            /\ AtMostOne(fg[2], "Churn")
                            /\ AtMostOne(fg[2], "CustomerID")}}
        : k \in 0..MaxCols}

Tables(N) == TablesOf(N, Pool(N), Kinds(N))

(***************************************************************************)
(* preprocessing.py, top to bottom                                         *)
(***************************************************************************)
NoMatrix == [columns |-> <<>>, m |-> <<>>]

NoCall == [kind |-> "none"]

UtilsIdle == fn = "" /\ args = <<>> /\ ret = NoCall /\ effects = <<>>

\* lines 15-18: df = pd.read_csv(...); df_clean = df.copy()
Init ==
    /\ \E N \in RowCounts : df \in Tables(N)
    /\ df_clean = df
    /\ pc = "constant"
    /\ constant_cols = <<>>
    /\ quasi_const_cols = <<>>
    /\ cols_to_remove = <<>>
    /\ cols_trop_nan = <<>>
    /\ corr_matrix = NoMatrix
    /\ high_corr_cols = <<>>
    /\ UtilsIdle

\* lines 28-33
ConstantFilter ==
    /\ pc = "constant"
    /\ constant_cols' = ConstantCols(df_clean)
    /\ df_clean' = drop(df_clean, constant_cols')
    /\ pc' = "quasi_constant"
    /\ UNCHANGED <<df, quasi_const_cols, cols_to_remove, cols_trop_nan,
                   corr_matrix, high_corr_cols, utilVars>>

\* lines 41-47
QuasiConstantFilter ==
    /\ pc = "quasi_constant"
    /\ quasi_const_cols' = QuasiConstCols(df_clean)
    /\ df_clean' = drop(df_clean, quasi_const_cols')
    /\ pc' = "denylist"
    /\ UNCHANGED <<df, constant_cols, cols_to_remove, cols_trop_nan,
                   corr_matrix, high_corr_cols, utilVars>>

\* lines 54-63
DenylistFilter ==
    /\ pc = "denylist"
    /\ cols_to_remove' = ColsToRemove(df_clean)
    /\ df_clean' = drop(df_clean, cols_to_remove')
    /\ pc' = "missing"
    /\ UNCHANGED <<df, constant_cols, quasi_const_cols, cols_trop_nan,
                   corr_matrix, high_corr_cols, utilVars>>

\* lines 70-75
MissingFilter ==
    /\ pc = "missing"
    /\ cols_trop_nan' = ColsTropNan(df_clean)
    /\ df_clean' = drop(df_clean, cols_trop_nan')
    /\ pc' = "correlation"
    /\ UNCHANGED <<df, constant_cols, quasi_const_cols, cols_to_remove,
                   corr_matrix, high_corr_cols, utilVars>>

\* lines 83-100
CorrelationFilter ==
    /\ pc = "correlation"
    /\ corr_matrix' = CorrMatrixAbs(df_clean)
    /\ high_corr_cols' = ProtectTarget(HighCorrCols(corr_matrix'))
    /\ df_clean' = drop(df_clean, high_corr_cols')
    /\ pc' = "done"
    /\ UNCHANGED <<df, constant_cols, quasi_const_cols, cols_to_remove,
                   cols_trop_nan, utilVars>>

Next ==
    \/ ConstantFilter
    \/ QuasiConstantFilter
    \/ DenylistFilter
    \/ MissingFilter
    \/ CorrelationFilter

Spec == Init /\ [][Next]_vars

(***************************************************************************)
(* Properties of the pruning script                                        *)
(***************************************************************************)
Kept(name) == name \in Range(Columns(df_clean))

PairsAbove(cm) ==
    {p \in (1..Len(cm.columns)) \X (1..Len(cm.columns)) :
        p[1] < p[2] /\ CorrGt(cm.m[p], corr_threshold)}

PerfectCorr(e) == ~e.nan /\ e.sxy * e.sxy = e.sxx * e.syy

AfterQuasi == pc \in {"denylist", "missing", "correlation", "done"}

\* C1: at every point of the script the row count of df_clean is that of the
\* input table and every column of df_clean is a column of the input table,
\* with its name, its dtype and every cell unchanged: columns are only removed.
C1_OnlyColumnsRemoved ==
    pc \in {"constant", "quasi_constant", "denylist", "missing", "correlation", "done"} =>
        /\ df_clean.nrows = df.nrows
        /\ \A i \in 1..Len(df_clean.cols) :
              /\ Len(df_clean.cols[i].vals) = df.nrows
              /\ \E j \in 1..Len(df.cols) : df_clean.cols[i] = df.cols[j]

\* C1 witness: the script has ended, the deny list and the correlation filter
\* each removed a column, and a column survives.
C1_Witness ==
    /\ pc = "done"
    /\ cols_to_remove # <<>>
    /\ high_corr_cols # <<>>
    /\ df_clean.cols # <<>>

\* C2: the correlation filter never puts "Churn" in its removal list, and a
\* "Churn" column that enters the filter leaves it.
C2_TargetProtected ==
    [][pc = "correlation" =>
          /\ Target \notin Range(high_corr_cols')
          /\ (Kept(Target) => Target \in Range(Columns(df_clean')))]_vars

\* C2 witness: "Churn" is a numeric column that comes after a column it is
\* perfectly correlated with, and it is still there at the end.
C2_Witness ==
    /\ pc = "done"
    /\ Kept(Target)
    /\ \E p \in PairsAbove(corr_matrix) :
          /\ corr_matrix.columns[p[2]] = Target
          /\ PerfectCorr(corr_matrix.m[p])

\* C3 (as stated): a column that enters the quasi-constant filter is removed
\* by it exactly when its most frequent value covers more than 95% of all the
\* rows of the table.
C3_ShareOfAllRows ==
    AfterQuasi =>
        \A i \in 1..Len(df.cols) :
            LET col == df.cols[i] IN
            col.name \notin Range(constant_cols) =>
                (col.name \in Range(quasi_const_cols)
                    <=> \E v \in Range(col.vals) :
                            100 * CountOf(col, v) > 95 * df.nrows)

\* C3 (amended): a column that enters the quasi-constant filter is removed by
\* it exactly when its most frequent value covers more than 95% of the
\* non-missing cells of the column.
C3_ShareOfNonMissing ==
    AfterQuasi =>
        \A i \in 1..Len(df.cols) :
            LET col == df.cols[i] IN
            col.name \notin Range(constant_cols) =>
                (col.name \in Range(quasi_const_cols)
                    <=> \E v \in Range(col.vals) :
                            100 * CountOf(col, v) > 95 * Cardinality(NonNa(col)))

\* C3 witness: the filter removed a column without missing cell whose top
\* value fills exactly 96% of the rows and kept a column whose top value fills
\* exactly 95% of its non-missing cells.
C3_Witness ==
    /\ pc = "denylist"
    /\ \E i \in 1..Len(df.cols) :
          /\ df.cols[i].name \in Range(quasi_const_cols)
          /\ NbNaN(df.cols[i]) = 0
          /\ 100 * MaxCount(df.cols[i]) = 96 * df.nrows
    /\ \E i \in 1..Len(df_clean.cols) :
          100 * MaxCount(df_clean.cols[i]) = 95 * Cardinality(NonNa(df_clean.cols[i]))

\* C4 (as stated): of every pair of numeric columns i before j correlated
\* above 0.90, the later column is dropped and the earlier one is kept.
C4_LaterDroppedEarlierKept ==
    pc = "done" =>
        \A p \in PairsAbove(corr_matrix) :
            /\ ~Kept(corr_matrix.columns[p[2]])
            /\ Kept(corr_matrix.columns[p[1]])

\* C4 (amended): of every pair of numeric columns i before j correlated above
\* 0.90, the later column is dropped unless it is "Churn", and the earlier
\* column is kept exactly when it is "Churn" or is not itself correlated above
\* 0.90 with a column before it.
C4_LaterDroppedUnlessTarget ==
    pc = "done" =>
        \A p \in PairsAbove(corr_matrix) :
            LET ci == corr_matrix.columns[p[1]]
                cj == corr_matrix.columns[p[2]]
            IN  /\ cj # Target => ~Kept(cj)
                /\ Kept(ci) <=>
                      \/ ci = Target
                      \/ ~\E q \in PairsAbove(corr_matrix) : q[2] = p[1]

\* C4 witness: a chain of three numeric columns, the first and the second
\* above the threshold, the second and the third above it, the first and the
\* third not.
C4_Witness ==
    /\ pc = "done"
    /\ \E i, j, k \in 1..Len(corr_matrix.columns) :
          /\ <<i, j>> \in PairsAbove(corr_matrix)
          /\ <<j, k>> \in PairsAbove(corr_matrix)
          /\ i < k /\ <<i, k>> \notin PairsAbove(corr_matrix)
          /\ Target \notin {corr_matrix.columns[i], corr_matrix.columns[j],
                            corr_matrix.columns[k]}

\* C9: on the table the script ends with, the constant filter, the
\* quasi-constant filter and the missing-value filter flag no column, so that
\* running them again, in any order and any number of times, removes nothing.
C9_RerunRemovesNothing ==
    pc = "done" =>
        /\ ConstantCols(df_clean) = <<>>
        /\ QuasiConstCols(df_clean) = <<>>
        /\ ColsTropNan(df_clean) = <<>>

\* C9 witness: the script has ended, two of the three filters removed columns
\* on the way and a column survives.
C9_Witness ==
    /\ pc = "done"
    /\ Len(constant_cols) + Len(quasi_const_cols) + Len(cols_trop_nan) >= 2
    /\ df_clean.cols # <<>>

\* C10: at the end, two surviving numeric columns correlated above 0.90 in
\* corr_matrix exist only when the later one is "Churn".
C10_NoSurvivingPairAbove ==
    pc = "done" =>
        \A p \in PairsAbove(corr_matrix) :
            (Kept(corr_matrix.columns[p[1]]) /\ Kept(corr_matrix.columns[p[2]]))
                => corr_matrix.columns[p[2]] = Target

\* C10 witness: a pair above the threshold survives, its later column being
\* "Churn", while another column above the threshold was dropped.
C10_Witness ==
    /\ pc = "done"
    /\ high_corr_cols # <<>>
    /\ \E p \in PairsAbove(corr_matrix) :
          /\ Kept(corr_matrix.columns[p[1]])
          /\ Kept(corr_matrix.columns[p[2]])

(***************************************************************************)
(* utils.py: arithmetic used by the helpers                                *)
(***************************************************************************)
\* sign of n1/d1 - n2/d2 for n1, n2 >= 0 and d1, d2 > 0, by continued fractions
RECURSIVE CmpFrac(_, _, _, _)
CmpFrac(n1, d1, n2, d2) ==
    LET q1 == n1 \div d1
        q2 == n2 \div d2
        r1 == n1 % d1
        r2 == n2 % d2
    IN  IF q1 < q2 THEN -1
        ELSE IF q1 > q2 THEN 1
        ELSE IF r1 = 0 /\ r2 = 0 THEN 0
        ELSE IF r1 = 0 THEN -1
        ELSE IF r2 = 0 THEN 1
        ELSE CmpFrac(d2, r2, d1, r1)

\* sign of a*b - c*d for natural numbers, whatever the size of the products
CmpProd(a, b, c, d) ==
    IF a = 0 \/ b = 0 THEN (IF c = 0 \/ d = 0 THEN 0 ELSE -1)
    ELSE IF c = 0 \/ d = 0 THEN 1
    ELSE CmpFrac(a, c, d, b)

\* round(k/n, 0) to the nearest integer, ties to the even one
RoundDiv(k, n) ==
    LET q == k \div n
        r == k % n
    IN  IF 2 * r < n THEN q
        ELSE IF 2 * r > n THEN q + 1
        ELSE IF q % 2 = 0 THEN q ELSE q + 1

\* the largest k of lo..hi with 1000*abs(r) >= k - 1/2 (lo has it)
RECURSIVE NearestThousandth(_, _, _)
NearestThousandth(e, lo, hi) ==
    IF lo = hi THEN lo
    ELSE LET mid == (lo + hi + 1) \div 2
             reached == CmpProd((2 * mid - 1) * (2 * mid - 1), e.sxx * e.syy,
                                4000000, e.sxy * e.sxy) <= 0
         IN  IF reached THEN NearestThousandth(e, mid, hi)
             ELSE NearestThousandth(e, lo, mid - 1)

\* round(entry, 3), in thousandths; ties to the even thousandth
Round3(e) ==
    LET k == NearestThousandth(e, 0, 1000)
        tie == k > 0 /\ CmpProd((2 * k - 1) * (2 * k - 1), e.sxx * e.syy,
                                4000000, e.sxy * e.sxy) = 0
    IN  IF tie /\ k % 2 = 1 THEN k - 1 ELSE k

\* the orders sort_values(by, ascending=False) may leave the rows S in: the
\* key never increases; rows with equal keys come in any order
RECURSIVE SortedDesc(_, _)
SortedDesc(S, key) ==
    IF S = {} THEN {<<>>}
    ELSE UNION {{<<r>> \o rest : rest \in SortedDesc(S \ {r}, key)} :
                  r \in {x \in S : \A y \in S : key[y] <= key[x]}}

\* DataFrame.empty: an axis of length 0
Empty(t) == t.nrows = 0 \/ Len(t.cols) = 0

None == [kind |-> "None"]

\* raise exc(msg); the messages are written without their accents
Raise(exc, msg) == [kind |-> exc, msg |-> msg]

(***************************************************************************)
(* utils.py: analyser_nan(df), lines 17-46                                 *)
(***************************************************************************)
\* one row of resume: Nb_NaN and Pourcentage (%) rounded to 2 decimals, kept
\* in hundredths of a percent
ResumeRow(t, col) ==
    [colonne |-> col.name, Nb_NaN |-> NbNaN(col),
     pct |-> RoundDiv(NbNaN(col) * 10000, t.nrows)]

analyser_nan(t) ==
    IF Empty(t) THEN {[ret |-> None, effects |-> <<"print">>]}
    ELSE LET rows == {ResumeRow(t, t.cols[i]) : i \in 1..Len(t.cols)}
             kept == {r \in rows : r.Nb_NaN > 0}
         IN  {[ret |-> [kind |-> "DataFrame", rows |-> o], effects |-> <<>>] :
                 o \in SortedDesc(kept, [r \in kept |-> r.pct])}

(***************************************************************************)
(* utils.py: detecter_outliers(df, colonne), lines 53-83                   *)
(***************************************************************************)
\* df[colonne]
Column(t, colonne) ==
    t.cols[CHOOSE i \in 1..Len(t.cols) : t.cols[i].name = colonne]

\* the non-missing cells of a column in increasing order
SortedValues(col) ==
    LET idx == [i \in 1..Len(col.vals) |-> i]
        Present(i) == ~col.isna[i]
        kept == SelectSeq(idx, Present)
    IN  SortSeq([k \in 1..Len(kept) |-> col.vals[kept[k]]], <)

\* Series.quantile(k/4), linear interpolation between the two order statistics
\* around position (n-1)*k/4; the result is kept in quarters; NaN for a column
\* with no value
Quantile(col, k) ==
    LET xs == SortedValues(col)
        n  == Len(xs)
        lo == ((n - 1) * k) \div 4
        fr == ((n - 1) * k) % 4
    IN  IF n = 0 THEN [nan |-> TRUE, q4 |-> 0]
        ELSE IF fr = 0 THEN [nan |-> FALSE, q4 |-> 4 * xs[lo + 1]]
        ELSE [nan |-> FALSE, q4 |-> 4 * xs[lo + 1] + fr * (xs[lo + 2] - xs[lo + 1])]

\* borne_inf and borne_sup, in eighths
Bornes(col) ==
    LET Q1  == Quantile(col, 1)
        Q3  == Quantile(col, 3)
        IQR == Q3.q4 - Q1.q4
    IN  [nan |-> Q1.nan,
         inf8 |-> 2 * Q1.q4 - 3 * IQR,
         sup8 |-> 2 * Q3.q4 + 3 * IQR]

\* variant: a value on a bound counts as an outlier
OutlierRowsInclusive(col, b) ==
    {i \in NonNa(col) : ~b.nan /\ (8 * col.vals[i] <= b.inf8 \/ 8 * col.vals[i] >= b.sup8)}

\* df[(df[colonne] < borne_inf) | (df[colonne] > borne_sup)]
OutlierRows(col, b) ==
    {i \in NonNa(col) : ~b.nan /\ (8 * col.vals[i] < b.inf8 \/ 8 * col.vals[i] > b.sup8)}

\* variant: the dtype is not checked
detecter_outliers_unchecked(t, colonne) ==
    IF colonne \notin Range(Columns(t))
    THEN [ret |-> Raise("ValueError", "Colonne inexistante."), effects |-> <<>>]
    ELSE LET col == Column(t, colonne)
             b   == Bornes(col)
         IN  [ret |-> [kind |-> "tuple", n |-> Cardinality(OutlierRows(col, b)),
                       nan |-> b.nan, borne_inf8 |-> b.inf8, borne_sup8 |-> b.sup8],
              effects |-> <<"quantile", "quantile", "print">>]

detecter_outliers(t, colonne) ==
    IF colonne \notin Range(Columns(t))
    THEN [ret |-> Raise("ValueError", "Colonne inexistante."), effects |-> <<>>]
    ELSE IF ~is_numeric_dtype(Column(t, colonne))
    THEN [ret |-> Raise("TypeError", "La colonne doit etre numerique."), effects |-> <<>>]
    ELSE LET col == Column(t, colonne)
             b   == Bornes(col)
         IN  [ret |-> [kind |-> "tuple", n |-> Cardinality(OutlierRows(col, b)),
                       nan |-> b.nan, borne_inf8 |-> b.inf8, borne_sup8 |-> b.sup8],
              effects |-> <<"quantile", "quantile", "print">>]

(***************************************************************************)
(* utils.py: afficher_distribution(df, colonne, bins), lines 112-136       *)
(***************************************************************************)
afficher_distribution(t, colonne, bins) ==
    IF colonne \notin Range(Columns(t))
    THEN [ret |-> Raise("ValueError", "Colonne non trouvee."), effects |-> <<>>]
    ELSE IF ~is_numeric_dtype(Column(t, colonne))
    THEN [ret |-> Raise("TypeError", "Colonne non numerique."), effects |-> <<>>]
    ELSE [ret |-> None,
          effects |-> <<"subplots", "histplot", "boxplot", "tight_layout", "show">>]

(***************************************************************************)
(* utils.py: analyser_correlation(df, seuil, heatmap), lines 171-213       *)
(***************************************************************************)
\* variant: the comparison with seuil is strict
PairesStrict(cm, seuil) ==
    LET n == Len(cm.columns)
    IN  {[Variable1 |-> cm.columns[p[1]], Variable2 |-> cm.columns[p[2]],
          Correlation |-> Round3(cm.m[p])] :
            p \in {q \in (1..n) \X (1..n) : q[1] < q[2] /\ CorrGt(cm.m[q], seuil)}}

\* the rows appended by the double loop over i < j
Paires(cm, seuil) ==
    LET n == Len(cm.columns)
    IN  {[Variable1 |-> cm.columns[p[1]], Variable2 |-> cm.columns[p[2]],
          Correlation |-> Round3(cm.m[p])] :
            p \in {q \in (1..n) \X (1..n) : q[1] < q[2] /\ CorrGe(cm.m[q], seuil)}}

analyser_correlation(t, seuil, heatmap) ==
    LET df_num == select_dtypes_number(t)
        shown  == IF heatmap THEN <<"heatmap">> ELSE <<>>
        paires == Paires(CorrMatrixAbs(df_num), seuil)
    IN  IF Empty(df_num) THEN {[ret |-> None, effects |-> <<"print">>]}
        ELSE IF paires = {} THEN {[ret |-> None, effects |-> shown \o <<"print">>]}
        ELSE {[ret |-> [kind |-> "DataFrame", rows |-> o], effects |-> shown] :
                o \in SortedDesc(paires, [r \in paires |-> r.Correlation])}

(***************************************************************************)
(* The tables and arguments the helpers are called with                    *)
(***************************************************************************)
URowCounts == {0, 4, 5, 10}

UPool(N) ==
    CASE N = 0 -> {Obj(<<>>), Num(<<>>)}
      [] N = 4 -> {Num(<<0, 1, 2, 3>>), Num(<<3, 2, 1, 0>>), Num(<<0, 1, 3, 2>>),
                   Num(<<0, 0, 1, 2>>), Obj(<<1, 2, 1, 3>>), NumNa(<<0, 0, 2, 3>>, {2})}
      [] N = 5 -> {Num(<<1, 1, 1, 1, 5>>), NumNa(<<0, 0, 0, 0, 0>>, 1..5),
                   ObjNa(<<1, 2, 0, 0, 1>>, {3, 4}), NumNa(<<0, 1, 0, 0, 4>>, {3, 4})}
      [] N = 10 -> {Num(<<1, 2, 3, 4, 5, 6, 7, 8, 9, 100>>),
                    Num(<<0, 0, 0, 0, 0, 1, 1, 1, 1, 1>>),
                    Obj(<<1, 2, 3, 1, 2, 3, 1, 2, 3, 1>>)}

UTables(N) == TablesOf(N, UPool(N), {"generic"})

Colonnes == Range(GenericNames) \cup {"Churn"}

Seuils == {<<1, 2>>, <<4, 5>>, <<9, 10>>, <<1, 1>>}

InitUtils ==
    /\ \E N \in URowCounts : df \in UTables(N)
    /\ pc = "ready"
    /\ df_clean = df
    /\ constant_cols = <<>>
    /\ quasi_const_cols = <<>>
    /\ cols_to_remove = <<>>
    /\ cols_trop_nan = <<>>
    /\ corr_matrix = NoMatrix
    /\ high_corr_cols = <<>>
    /\ UtilsIdle

Returns(name, a, o) ==
    /\ fn' = name
    /\ args' = a
    /\ ret' = o.ret
    /\ effects' = o.effects
    /\ pc' = "returned"
    /\ UNCHANGED <<df, pipelineVars>>

CallAnalyserNan ==
    /\ pc = "ready"
    /\ \E o \in analyser_nan(df) : Returns("analyser_nan", <<>>, o)

CallDetecterOutliers ==
    /\ pc = "ready"
    /\ \E colonne \in Colonnes :
          Returns("detecter_outliers", [colonne |-> colonne],
                  detecter_outliers(df, colonne))

CallAfficherDistribution ==
    /\ pc = "ready"
    /\ \E colonne \in Colonnes :
          Returns("afficher_distribution", [colonne |-> colonne, bins |-> 30],
                  afficher_distribution(df, colonne, 30))

CallAnalyserCorrelation ==
    /\ pc = "ready"
    /\ \E seuil \in Seuils, heatmap \in BOOLEAN :
          \E o \in analyser_correlation(df, seuil, heatmap) :
              Returns("analyser_correlation", [seuil |-> seuil, heatmap |-> heatmap], o)

NextUtils ==
    \/ CallAnalyserNan
    \/ CallDetecterOutliers
    \/ CallAfficherDistribution
    \/ CallAnalyserCorrelation

SpecUtils == InitUtils /\ [][NextUtils]_vars

(***************************************************************************)
(* Properties of the helpers                                               *)
(***************************************************************************)
Returned(name) == pc = "returned" /\ fn = name

NoMissing(t) == \A i \in 1..Len(t.cols) : NbNaN(t.cols[i]) = 0

\* C5: analyser_nan on a non-empty table without any missing cell returns the
\* no-data result None, and it returns a report only when some column has a
\* missing cell.
C5_NoneWhenNothingMissing ==
    Returned("analyser_nan") =>
        /\ (~Empty(df) /\ NoMissing(df)) => ret = None
        /\ ret.kind = "DataFrame" => ~NoMissing(df)

\* C6: detecter_outliers and afficher_distribution raise ValueError when the
\* column is absent and TypeError when it is there but not numeric, before any
\* quantile is computed or anything is drawn; otherwise they raise neither;
\* the table is left as it was.
C6_ColumnChecksFirst ==
    [][(pc = "ready" /\ fn' \in {"detecter_outliers", "afficher_distribution"}) =>
          LET c == args'.colonne
              present == c \in Range(Columns(df))
          IN  /\ df' = df
              /\ ~present => (ret'.kind = "ValueError" /\ effects' = <<>>)
              /\ (present /\ Column(df, c).dtype # "num") =>
                     (ret'.kind = "TypeError" /\ effects' = <<>>)
              /\ (present /\ Column(df, c).dtype = "num") =>
                     ret'.kind \notin {"ValueError", "TypeError"}]_vars

\* C6 witness: detecter_outliers was called on a column that exists and is
\* not numeric, and raised TypeError.
C6_Witness ==
    /\ Returned("detecter_outliers")
    /\ args.colonne \in Range(Columns(df))
    /\ ret.kind = "TypeError"

\* abs(corr) of two columns reaches p/q, whatever the sign of the correlation
Reaches(x, y, th) ==
    LET e == corr(x, y)
    IN  ~e.nan /\ th[2] * th[2] * e.sxy * e.sxy >= th[1] * th[1] * e.sxx * e.syy

\* c thousandths is abs(corr) rounded to 3 decimals
IsRounded(x, y, c) ==
    LET e == corr(x, y)
    IN  /\ c \in 0..1000
        /\ c > 0 => CmpProd((2 * c - 1) * (2 * c - 1), e.sxx * e.syy,
                            4000000, e.sxy * e.sxy) <= 0
        /\ CmpProd(4000000, e.sxy * e.sxy,
                   (2 * c + 1) * (2 * c + 1), e.sxx * e.syy) <= 0

NumericCols(t) == {t.cols[i] : i \in {k \in 1..Len(t.cols) : t.cols[k].dtype = "num"}}

Before(t, a, b) ==
    \E i, j \in 1..Len(t.cols) : i < j /\ t.cols[i].name = a /\ t.cols[j].name = b

\* C7: analyser_correlation returns None when the table has no numeric column
\* or no row, or when no pair of numeric columns has an absolute correlation
\* at or above seuil; otherwise it returns each such pair exactly once, with
\* the absolute correlation rounded to 3 decimals, the reported correlations
\* never increasing down the list.
C7_PairsAtOrAboveSeuil ==
    Returned("analyser_correlation") =>
        LET num == NumericCols(df)
            Q == {<<x.name, y.name>> : <<x, y>> \in
                     {xy \in num \X num :
                         /\ Before(df, xy[1].name, xy[2].name)
                         /\ Reaches(xy[1], xy[2], args.seuil)}}
        IN  IF df.nrows = 0 \/ Q = {}
            THEN ret = None
            ELSE /\ ret.kind = "DataFrame"
                 /\ {<<r.Variable1, r.Variable2>> : r \in Range(ret.rows)} = Q
                 /\ Len(ret.rows) = Cardinality(Q)
                 /\ \A k \in 1..Len(ret.rows) :
                       IsRounded(Column(df, ret.rows[k].Variable1),
                                 Column(df, ret.rows[k].Variable2),
                                 ret.rows[k].Correlation)
                 /\ \A k \in 1..(Len(ret.rows) - 1) :
                       ret.rows[k].Correlation >= ret.rows[k + 1].Correlation

\* C7 witness: with seuil = 1.0 the report lists a pair whose correlation is
\* -1.0.
C7_Witness ==
    /\ Returned("analyser_correlation")
    /\ args.seuil = <<1, 1>>
    /\ ret.kind = "DataFrame"
    /\ \E k \in 1..Len(ret.rows) :
          LET e == corr(Column(df, ret.rows[k].Variable1),
                        Column(df, ret.rows[k].Variable2))
          IN  e.sxy < 0 /\ e.sxy * e.sxy = e.sxx * e.syy

\* the k-th smallest of the non-missing cells of a column
OrderStat(col, k) ==
    CHOOSE v \in {col.vals[i] : i \in NonNa(col)} :
        /\ Cardinality({i \in NonNa(col) : col.vals[i] < v}) < k
        /\ k <= Cardinality({i \in NonNa(col) : col.vals[i] <= v})

\* four times the linear-interpolation quantile p/4 of a column with a value
Quartile4(col, p) ==
    LET n  == Cardinality(NonNa(col))
        lo == ((n - 1) * p) \div 4
        fr == ((n - 1) * p) % 4
    IN  4 * OrderStat(col, lo + 1)
          + (IF fr = 0 THEN 0 ELSE fr * (OrderStat(col, lo + 2) - OrderStat(col, lo + 1)))

\* C8: detecter_outliers returns the number of rows strictly below
\* Q1 - 1.5*IQR or strictly above Q3 + 1.5*IQR, and these two bounds, Q1 and
\* Q3 being the linear-interpolation quartiles; for [1,...,9,100] Q1 = 3.25,
\* Q3 = 7.75, the bounds are -3.5 and 14.5 and there is one outlier.
C8_IqrOutliers ==
    (Returned("detecter_outliers") /\ ret.kind = "tuple") =>
        LET col == Column(df, args.colonne) IN
        IF NonNa(col) = {} THEN ret.nan /\ ret.n = 0
        ELSE LET q1  == Quartile4(col, 1)
                 q3  == Quartile4(col, 3)
                 inf == 2 * q1 - 3 * (q3 - q1)
                 sup == 2 * q3 + 3 * (q3 - q1)
             IN  /\ ~ret.nan
                 /\ ret.borne_inf8 = inf
                 /\ ret.borne_sup8 = sup
                 /\ ret.n = Cardinality({i \in NonNa(col) :
                                8 * col.vals[i] < inf \/ 8 * col.vals[i] > sup})
                 /\ col.vals = <<1, 2, 3, 4, 5, 6, 7, 8, 9, 100>> =>
                       /\ q1 = 13 /\ q3 = 31
                       /\ ret.borne_inf8 = -28 /\ ret.borne_sup8 = 116
                       /\ ret.n = 1

\* C8 witness: detecter_outliers returned for the column [1,...,9,100].
C8_Witness ==
    /\ Returned("detecter_outliers")
    /\ ret.kind = "tuple"
    /\ Column(df, args.colonne).vals = <<1, 2, 3, 4, 5, 6, 7, 8, 9, 100>>
    /\ ret.n = 1

====
